---- MODULE Spec2Model ----
(***************************************************************************)
(* BingoBook server (src/server.js): an express application over a SQLite  *)
(* database with two tables, entries and timesheets, three triggers, and   *)
(* an uploads/ directory written by multer.                                *)
(*                                                                         *)
(* SQLite runs with its defaults: the code never issues                    *)
(* PRAGMA foreign_keys = ON, so the FOREIGN KEY clause of the timesheets   *)
(* table is parsed but not enforced, and recursive_triggers is off, so the *)
(* INSERT made by a trigger fires no DELETE trigger.  A trigger fired by a *)
(* statement that itself runs inside another trigger (a nested trigger)    *)
(* does run: the rows deleted by after_entry_delete fire                   *)
(* after_last_timesheetRow_delete.                                         *)
(***************************************************************************)
EXTENDS Integers, Sequences, FiniteSets, TLC

VARIABLES
    entries,        \* table entries: a set of rows
    entrySeq,       \* AUTOINCREMENT counter of entries (sqlite_sequence)
    timesheets,     \* table timesheets: a set of rows
    timesheetSeq,   \* AUTOINCREMENT counter of timesheets
    files,          \* names of the files present in uploads/
    now,            \* Date.now(), the clock multer names files with
    reqs,           \* /add-image and /delete-image requests in flight
    running,        \* the node process is up
    last,           \* the handler step that ran last and its response
    clerk           \* a client that makes its calls one after the other

vars == <<entries, entrySeq, timesheets, timesheetSeq, files, now, reqs,
          running, last, clerk>>

(***************************************************************************)
(* Bounds of the model.                                                    *)
(***************************************************************************)
MaxEntryId == 2     \* entries ever created
MaxRowId == 3       \* timesheet rows ever created
MaxClock == 2       \* values of Date.now(): 1..MaxClock
MaxReq == 2         \* /add-image and /delete-image requests ever made
MaxRows == 2        \* timesheet rows stored at a time, where a
                    \* specification limits them

(***************************************************************************)
(* Values.                                                                 *)
(***************************************************************************)
NULL == "NULL"      \* SQL NULL (also what an absent body field binds to)
NoArg == -1         \* undefined: a value the request or response lacks
Pending == 0        \* status of a request that has no response yet

\* Bodies of the text fields of /submit-data and /update-data.
Alice ==
    [firstName |-> "Alice", lastName |-> "A", roomNumber |-> "101",
     additionalText |-> NULL]

Bob ==
    [firstName |-> "Bob", lastName |-> NULL, roomNumber |-> "42",
     additionalText |-> "room 42"]

FieldSets == {Alice, Bob}

\* Values the timesheet endpoints receive for roomNumber, signIn, signOut.
RoomInputs == {"101"}
SignInInputs == {"09:00"}
SignOutInputs == {"17:00"}
RowInputs == { <<NULL, NULL, NULL>>, <<"101", "09:00", "17:00">> }

\* Entry ids a client names: of existing entries, of deleted ones, and ones
\* the store has not assigned yet.
EntryIdInputs == {1, 2}

\* timesheetRow values a client names.
IndexInputs == {0, 1}

\* upload.array('images', 10): the most files multer accepts in one request.
UploadLimit == 10

\* Numbers of files a client uploads in one request.
FileCountInputs == { n \in {0, 1, 2} : n <= UploadLimit }

\* The id of a /update-data body: absent, or a JSON number.
UpdateIdInputs == {NoArg, 0, 1, 2}

\* The id of a /delete-data body: absent, or a JSON number.
DeleteIdInputs == {NoArg, 1, 2}

(***************************************************************************)
(* Rows.                                                                   *)
(***************************************************************************)
TimesheetRow(id, entryId, timesheetRow, roomNumber, signIn, signOut) ==
    [id |-> id, entryId |-> entryId, timesheetRow |-> timesheetRow,
     roomNumber |-> roomNumber, signIn |-> signIn, signOut |-> signOut]

EntryIds == { e.id : e \in entries }

RowsOf(ts, entryId) == { r \in ts : r.entryId = entryId }

\* A WHERE clause without its entryId = ? term.
MatchingAnyEntry(ts, entryId, timesheetRow) ==
    { r \in ts : r.timesheetRow = timesheetRow }

\* WHERE entryId = ? AND timesheetRow = ?
Matching(ts, entryId, timesheetRow) ==
    { r \in ts : r.entryId = entryId /\ r.timesheetRow = timesheetRow }

\* What the handler that ran last sent: the status, and the id the body
\* carries (this.lastID) where it carries one.
Response(op, status, result) ==
    [op |-> op, status |-> status, result |-> result]

(***************************************************************************)
(* The triggers.                                                           *)
(***************************************************************************)
\* after_entry_insert: the row inserted for NEW.id.
after_entry_insert(seq, newId) ==
    TimesheetRow(seq + 1, newId, 0, NULL, NULL, NULL)

\* A WHEN clause that counts the deleted row too (COUNT(*) = 1).
when_counting_old(ts, oldEntryId) ==
    Cardinality(RowsOf(ts, oldEntryId)) = 1

\* after_last_timesheetRow_delete: its WHEN clause, evaluated on the table
\* after the row OLD was deleted.
after_last_timesheetRow_delete_when(ts, oldEntryId) ==
    Cardinality(RowsOf(ts, oldEntryId)) = 0

\* after_last_timesheetRow_delete: the row it inserts.  roomNumber, signIn
\* and signOut are not listed in the INSERT and take the default, NULL.
after_last_timesheetRow_delete_row(seq, oldEntryId) ==
    TimesheetRow(seq + 1, oldEntryId, 0, NULL, NULL, NULL)

\* DELETE FROM timesheets of the rows del, all of one entry: SQLite collects
\* the matching rows first, then deletes them one by one and runs the FOR
\* EACH ROW trigger after each; the WHEN clause can hold only after the last
\* of them, and the row the trigger inserts is not among the collected ones.
ZeroRowFires(del, entryId) ==
    /\ del # {}
    /\ after_last_timesheetRow_delete_when(timesheets \ del, entryId)

DeleteFromTimesheets(del, entryId) ==
    IF ZeroRowFires(del, entryId)
    THEN /\ timesheetSeq < MaxRowId
         /\ timesheets' = (timesheets \ del) \cup
                 { after_last_timesheetRow_delete_row(timesheetSeq, entryId) }
         /\ timesheetSeq' = timesheetSeq + 1
    ELSE /\ timesheets' = timesheets \ del
         /\ timesheetSeq' = timesheetSeq

\* after_entry_delete: DELETE FROM timesheets WHERE entryId = OLD.id.
after_entry_delete(oldId) ==
    DeleteFromTimesheets(RowsOf(timesheets, oldId), oldId)

(***************************************************************************)
(* Image references.                                                       *)
(***************************************************************************)
\* multer names a file fieldname + '-' + Date.now(): the name is the clock
\* value.  A reference is a path: a directory prefix and that name.
Path(prefix, name) == [prefix |-> prefix, name |-> name]

\* file.path of multer's disk storage: destination joined with filename.
FilePath(name) == Path("uploads/", name)

\* `/uploads/${file.filename}` of /add-image.
UploadsUrl(name) == Path("/uploads/", name)

\* path.basename
basename(p) == p.name

\* JSON.stringify of an array of strings, and JSON.parse of that text.
JSONstringify(images) == [text |-> images]
JSONparse(text) == text.text

\* The names multer gives the n files of one upload: Date.now() is read once
\* per file and does not go back, and two reads may return the same value.
Range(s) == { s[i] : i \in 1..Len(s) }

Uploads(n) ==
    { s \in [1..n -> 1..MaxClock] :
        /\ \A i \in 1..n : s[i] >= now
        /\ \A i \in 1..n, j \in 1..n : i < j => s[i] <= s[j] }

\* The names of n files when Date.now() has advanced before each of them:
\* no two files ever get the same name.
UploadsApart(n) ==
    { s \in Uploads(n) :
        /\ \A i \in 1..n : s[i] > now
        /\ \A i \in 1..n, j \in 1..n : i < j => s[i] < s[j] }

\* multer stores the files before the handler runs.
Store(names) ==
    /\ files' = files \cup Range(names)
    /\ now' = IF Len(names) = 0 THEN now ELSE names[Len(names)]

\* A /add-image or /delete-image request: where it stands (pc), what it
\* carries (entryId, the names multer gave its files, the basename of
\* imageName), the image list its callbacks hold, and its response status.
\* changes is this.changes of its UPDATE, which the handlers do not read;
\* alone records that every earlier request had been answered when this one
\* arrived (history, read by no handler).
Request(op, pc, entryId, names, filename, images, status, alone) ==
    [op |-> op, pc |-> pc, entryId |-> entryId, names |-> names,
     filename |-> filename, images |-> images, status |-> status,
     changes |-> 0, alone |-> alone]

Idle == Request("none", "idle", NoArg, <<>>, NoArg, <<>>, Pending, TRUE)

\* The clerk: a client that creates an entry and then calls newRow, signIn,
\* signOut and the list of that entry, each call made when the one before
\* was answered.  calls counts the calls answered, entryId is the id the
\* submit returned, timesheetRow the index given to newRow.  The server
\* holds nothing of it.
Clerk(calls, entryId, timesheetRow) ==
    [calls |-> calls, entryId |-> entryId, timesheetRow |-> timesheetRow]

Waiting == Clerk(0, NoArg, NoArg)

(***************************************************************************)
(* Initial state: both tables and the three triggers exist, no data.       *)
(***************************************************************************)
Init ==
    /\ entries = {}
    /\ entrySeq = 0
    /\ timesheets = {}
    /\ timesheetSeq = 0
    /\ files = {}
    /\ now = 1
    /\ reqs = [r \in 1..MaxReq |-> Idle]
    /\ running = TRUE
    /\ last = Response("start", Pending, NoArg)
    /\ clerk = Waiting

(***************************************************************************)
(* POST /submit-data                                                       *)
(***************************************************************************)
\* An INSERT into a table whose id is INTEGER PRIMARY KEY without
\* AUTOINCREMENT: the new id is one more than the largest id stored.
submitRowid(body, names) ==
    /\ running
    /\ entrySeq < MaxEntryId
    /\ timesheetSeq < MaxRowId
    /\ Store(names)
    /\ LET id == 1 + Cardinality({ i \in 1..entrySeq :
                                     \E e \in entries : e.id >= i })
           images == [i \in 1..Len(names) |-> FilePath(names[i])]
       IN /\ entries' = entries \cup
                 { [id |-> id, firstName |-> body.firstName,
                    lastName |-> body.lastName,
                    roomNumber |-> body.roomNumber,
                    additionalText |-> body.additionalText,
                    images |-> JSONstringify(images)] }
          /\ entrySeq' = IF id > entrySeq THEN id ELSE entrySeq
          /\ timesheets' = timesheets \cup
                 { after_entry_insert(timesheetSeq, id) }
          /\ timesheetSeq' = timesheetSeq + 1
          /\ last' = Response("submit", 200, id)
    /\ UNCHANGED <<reqs, running>>

\* INSERT INTO entries: AUTOINCREMENT gives the new row an id one more than
\* the largest id the table ever held.
submit(body, names) ==
    /\ running
    /\ entrySeq < MaxEntryId
    /\ timesheetSeq < MaxRowId
    /\ Store(names)
    /\ LET id == entrySeq + 1
           images == [i \in 1..Len(names) |-> FilePath(names[i])]
       IN /\ entries' = entries \cup
                 { [id |-> id, firstName |-> body.firstName,
                    lastName |-> body.lastName,
                    roomNumber |-> body.roomNumber,
                    additionalText |-> body.additionalText,
                    images |-> JSONstringify(images)] }
          /\ entrySeq' = id
          /\ timesheets' = timesheets \cup
                 { after_entry_insert(timesheetSeq, id) }
          /\ timesheetSeq' = timesheetSeq + 1
          /\ last' = Response("submit", 200, id)
    /\ UNCHANGED <<reqs, running>>

(***************************************************************************)
(* POST /delete-data                                                       *)
(***************************************************************************)
\* isNaN(parseInt(id, 10)): parseInt of a number is that number, of
\* undefined it is NaN.
parseIntIsNaN(id) == id = NoArg

\* A delete that removes the timesheet rows of the id by a statement of its
\* own, whether or not an entry was deleted, in place of the trigger.
deleteDataAndRows(id) ==
    /\ running
    /\ IF parseIntIsNaN(id)
       THEN /\ last' = Response("delete", 400, NoArg)
            /\ UNCHANGED <<entries, timesheets, timesheetSeq>>
       ELSE LET del == { e \in entries : e.id = id }
            IN /\ entries' = entries \ del
               /\ after_entry_delete(id)
               /\ last' = Response("delete",
                                   IF Cardinality(del) > 0 THEN 200 ELSE 404,
                                   NoArg)
    /\ UNCHANGED <<entrySeq, files, now, reqs, running>>

\* this.changes of the DELETE: the rows of entries deleted, the rows deleted
\* by triggers not counted.
deleteData(id) ==
    /\ running
    /\ IF parseIntIsNaN(id)
       THEN /\ last' = Response("delete", 400, NoArg)
            /\ UNCHANGED <<entries, timesheets, timesheetSeq>>
       ELSE LET del == { e \in entries : e.id = id }
            IN /\ entries' = entries \ del
               /\ IF del # {}
                  THEN after_entry_delete(id)
                  ELSE UNCHANGED <<timesheets, timesheetSeq>>
               /\ last' = Response("delete",
                                   IF Cardinality(del) > 0 THEN 200 ELSE 404,
                                   NoArg)
    /\ UNCHANGED <<entrySeq, files, now, reqs, running>>

(***************************************************************************)
(* The timesheet endpoints.                                                *)
(***************************************************************************)
\* POST /timesheets/newRow.  A body without entryId binds NULL to a NOT NULL
\* column: the INSERT fails and the answer is 500.  No other constraint is
\* enforced: not the foreign key, and the table has no unique index.
newRow(entryId, timesheetRow) ==
    /\ running
    /\ IF entryId = NoArg
       THEN /\ last' = Response("newRow", 500, NoArg)
            /\ UNCHANGED <<timesheets, timesheetSeq>>
       ELSE /\ timesheetSeq < MaxRowId
            /\ timesheets' = timesheets \cup
                   { TimesheetRow(timesheetSeq + 1, entryId, timesheetRow,
                                  NULL, NULL, NULL) }
            /\ timesheetSeq' = timesheetSeq + 1
            /\ last' = Response("newRow", 200, timesheetSeq + 1)
    /\ UNCHANGED <<entries, entrySeq, files, now, reqs, running>>

\* POST /timesheets/signIn
signIn(entryId, timesheetRow, roomNumber, signInTime) ==
    /\ running
    /\ timesheets' =
           { IF r \in Matching(timesheets, entryId, timesheetRow)
             THEN [r EXCEPT !.roomNumber = roomNumber, !.signIn = signInTime]
             ELSE r : r \in timesheets }
    /\ last' = Response("signIn", 200, NoArg)
    /\ UNCHANGED <<entries, entrySeq, timesheetSeq, files, now, reqs,
                   running>>

\* A signOut that answers 200 whatever this.changes is.
signOutAlways200(entryId, timesheetRow, signOutTime) ==
    /\ running
    /\ LET hit == Matching(timesheets, entryId, timesheetRow)
       IN /\ timesheets' =
                 { IF r \in hit THEN [r EXCEPT !.signOut = signOutTime]
                   ELSE r : r \in timesheets }
          /\ last' = Response("signOut", 200, NoArg)
    /\ UNCHANGED <<entries, entrySeq, timesheetSeq, files, now, reqs,
                   running>>

\* POST /timesheets/signOut
signOut(entryId, timesheetRow, signOutTime) ==
    /\ running
    /\ LET hit == Matching(timesheets, entryId, timesheetRow)
       IN /\ timesheets' =
                 { IF r \in hit THEN [r EXCEPT !.signOut = signOutTime]
                   ELSE r : r \in timesheets }
          /\ last' = Response("signOut",
                              IF Cardinality(hit) > 0 THEN 200 ELSE 404,
                              NoArg)
    /\ UNCHANGED <<entries, entrySeq, timesheetSeq, files, now, reqs,
                   running>>

\* POST /timesheets/updateRow
updateRow(entryId, timesheetRow, roomNumber, signInTime, signOutTime) ==
    /\ running
    /\ timesheets' =
           { IF r \in Matching(timesheets, entryId, timesheetRow)
             THEN [r EXCEPT !.roomNumber = roomNumber, !.signIn = signInTime,
                            !.signOut = signOutTime]
             ELSE r : r \in timesheets }
    /\ last' = Response("updateRow", 200, NoArg)
    /\ UNCHANGED <<entries, entrySeq, timesheetSeq, files, now, reqs,
                   running>>

\* DELETE /timesheets/deleteRow
deleteRow(entryId, timesheetRow) ==
    /\ running
    /\ DeleteFromTimesheets(Matching(timesheets, entryId, timesheetRow),
                            entryId)
    /\ last' = Response("deleteRow", 200, NoArg)
    /\ UNCHANGED <<entries, entrySeq, files, now, reqs, running>>

(***************************************************************************)
(* The reads of timesheets.                                                *)
(***************************************************************************)
\* ORDER BY timesheetRow ASC: the orders in which a SELECT may return the
\* rows.  SQL leaves the order of rows with equal keys to the engine.
OrderByAsc(rows) ==
    { s \in [1..Cardinality(rows) -> rows] :
        /\ \A i \in DOMAIN s, j \in DOMAIN s : i # j => s[i] # s[j]
        /\ \A i \in DOMAIN s, j \in DOMAIN s :
              i < j => s[i].timesheetRow <= s[j].timesheetRow }

\* GET /timesheets/:entryId
list(entryId) ==
    /\ running
    /\ \E rows \in OrderByAsc(RowsOf(timesheets, entryId)) :
          last' = Response("list", 200, rows)
    /\ UNCHANGED <<entries, entrySeq, timesheets, timesheetSeq, files, now,
                   reqs, running>>

\* ORDER BY timesheetRow ASC LIMIT 1: the rows a SELECT may return first.
OrderByAscLimit1(rows) ==
    { r \in rows : \A q \in rows : r.timesheetRow <= q.timesheetRow }

\* ORDER BY timesheetRow DESC LIMIT 1: the rows a SELECT may return first.
OrderByDescLimit1(rows) ==
    { r \in rows : \A q \in rows : q.timesheetRow <= r.timesheetRow }

\* GET /timesheets/get-current-row/:rowId
getCurrentRow(rowId) ==
    /\ running
    /\ LET rows == OrderByDescLimit1(RowsOf(timesheets, rowId))
       IN IF rows # {}
          THEN \E row \in rows : last' = Response("getCurrentRow", 200, row)
          ELSE last' = Response("getCurrentRow", 404, NoArg)
    /\ UNCHANGED <<entries, entrySeq, timesheets, timesheetSeq, files, now,
                   reqs, running>>

(***************************************************************************)
(* POST /update-data                                                       *)
(***************************************************************************)
\* !id of JavaScript: undefined and the number 0 are both falsy.
Falsy(id) == id = NoArg \/ id = 0

\* An UPDATE without its WHERE clause.
UpdateEveryRow(id) == entries

\* The rows of entries the UPDATE ... WHERE id = ? changes.
UpdateWhere(id) == { e \in entries : e.id = id }

update(id, body) ==
    /\ running
    /\ IF Falsy(id)
       THEN /\ last' = Response("update", 400, NoArg)
            /\ UNCHANGED entries
       ELSE LET hit == UpdateWhere(id)
            IN /\ entries' =
                      { IF e \in hit
                        THEN [e EXCEPT !.firstName = body.firstName,
                                       !.lastName = body.lastName,
                                       !.roomNumber = body.roomNumber,
                                       !.additionalText = body.additionalText]
                        ELSE e : e \in entries }
               /\ last' = Response("update",
                                   IF Cardinality(hit) > 0 THEN 200 ELSE 404,
                                   IF Cardinality(hit) > 0 THEN id ELSE NoArg)
    /\ UNCHANGED <<entrySeq, timesheets, timesheetSeq, files, now, reqs,
                   running>>

(***************************************************************************)
(* POST /add-image and POST /delete-image.  Each request runs in steps,    *)
(* one per statement the database or the file system executes; the steps   *)
(* of different requests interleave.  Request r is the r-th one made.      *)
(***************************************************************************)
\* Requests are numbered in the order they arrive.
Arrives(r) ==
    /\ running
    /\ reqs[r].pc = "idle"
    /\ \A q \in 1..(r - 1) : reqs[q].pc # "idle"

Alone(r) == \A q \in 1..(r - 1) : reqs[q].pc = "done"

\* /add-image: multer has stored the files; without files the handler
\* answers 400, else it issues the SELECT.
addImage(r, entryId, names) ==
    /\ Arrives(r)
    /\ Store(names)
    /\ IF Len(names) = 0
       THEN /\ reqs' = [reqs EXCEPT ![r] =
                   Request("addImage", "done", entryId, names, NoArg, <<>>,
                           400, Alone(r))]
            /\ last' = Response("addImage", 400, NoArg)
       ELSE /\ reqs' = [reqs EXCEPT ![r] =
                   Request("addImage", "get", entryId, names, NoArg, <<>>,
                           Pending, Alone(r))]
            /\ last' = Response("addImage", Pending, NoArg)
    /\ UNCHANGED <<entries, entrySeq, timesheets, timesheetSeq, running>>

\* The list the continuation of the SELECT computes: the images read, or []
\* when no row was read, followed by the new paths.
addImageList(rows, names) ==
    LET images == IF rows # {}
                  THEN JSONparse((CHOOSE e \in rows : TRUE).images)
                  ELSE <<>>
        newImagePaths == [i \in 1..Len(names) |-> UploadsUrl(names[i])]
    IN images \o newImagePaths

\* The SELECT runs; the continuation builds the list and issues the UPDATE.
addImageGet(r) ==
    /\ running
    /\ reqs[r].op = "addImage"
    /\ reqs[r].pc = "get"
    /\ reqs' = [reqs EXCEPT
           ![r].pc = "run",
           ![r].images =
               addImageList({ e \in entries : e.id = reqs[r].entryId },
                            reqs[r].names)]
    /\ last' = Response("addImage", Pending, NoArg)
    /\ UNCHANGED <<entries, entrySeq, timesheets, timesheetSeq, files, now,
                   running>>

\* A write that appends the new paths to the list stored at the time of the
\* write instead of the list read earlier.
addImageAppend(r) ==
    /\ running
    /\ reqs[r].op = "addImage"
    /\ reqs[r].pc = "run"
    /\ entries' = { IF e.id = reqs[r].entryId
                    THEN [e EXCEPT !.images = JSONstringify(
                             JSONparse(e.images) \o
                             [i \in 1..Len(reqs[r].names) |->
                                 UploadsUrl(reqs[r].names[i])])]
                    ELSE e : e \in entries }
    /\ reqs' = [reqs EXCEPT
           ![r].pc = "done", ![r].status = 200,
           ![r].changes =
               Cardinality({ e \in entries : e.id = reqs[r].entryId })]
    /\ last' = Response("addImage", 200, NoArg)
    /\ UNCHANGED <<entrySeq, timesheets, timesheetSeq, files, now, running>>

\* The UPDATE runs (on no row when the entry does not exist); 200.
addImageRun(r) ==
    /\ running
    /\ reqs[r].op = "addImage"
    /\ reqs[r].pc = "run"
    /\ entries' = { IF e.id = reqs[r].entryId
                    THEN [e EXCEPT !.images = JSONstringify(reqs[r].images)]
                    ELSE e : e \in entries }
    /\ reqs' = [reqs EXCEPT
           ![r].pc = "done", ![r].status = 200,
           ![r].changes =
               Cardinality({ e \in entries : e.id = reqs[r].entryId })]
    /\ last' = Response("addImage", 200, NoArg)
    /\ UNCHANGED <<entrySeq, timesheets, timesheetSeq, files, now, running>>

\* A handler that goes on to the database when the file is missing.
deleteImageAnyway(r, entryId, imageName) ==
    /\ Arrives(r)
    /\ LET filename == basename(imageName)
       IN /\ files' = files \ {filename}
          /\ reqs' = [reqs EXCEPT ![r] =
                 Request("deleteImage", "get", entryId, <<>>, filename,
                         <<>>, Pending, Alone(r))]
          /\ last' = Response("deleteImage", Pending, NoArg)
    /\ UNCHANGED <<entries, entrySeq, timesheets, timesheetSeq, now, running>>

\* /delete-image: fs.unlink of uploads/<basename>; ENOENT answers 404.
deleteImage(r, entryId, imageName) ==
    /\ Arrives(r)
    /\ LET filename == basename(imageName)
       IN IF filename \in files
          THEN /\ files' = files \ {filename}
               /\ reqs' = [reqs EXCEPT ![r] =
                      Request("deleteImage", "get", entryId, <<>>, filename,
                              <<>>, Pending, Alone(r))]
               /\ last' = Response("deleteImage", Pending, NoArg)
          ELSE /\ files' = files
               /\ reqs' = [reqs EXCEPT ![r] =
                      Request("deleteImage", "done", entryId, <<>>, filename,
                              <<>>, 404, Alone(r))]
               /\ last' = Response("deleteImage", 404, NoArg)
    /\ UNCHANGED <<entries, entrySeq, timesheets, timesheetSeq, now, running>>

\* images.filter(img => path.basename(img) !== filename)
filterImages(images, filename) ==
    SelectSeq(images, LAMBDA img : basename(img) # filename)

\* The SELECT runs.  Its callback reads row.images: with no row read, row is
\* undefined, the read throws a TypeError inside the callback, nothing
\* catches it and the process ends without a response.  Else the callback
\* filters the list and issues the UPDATE.
deleteImageGet(r) ==
    /\ running
    /\ reqs[r].op = "deleteImage"
    /\ reqs[r].pc = "get"
    /\ LET rows == { e \in entries : e.id = reqs[r].entryId }
       IN IF rows = {}
          THEN /\ reqs' = [reqs EXCEPT ![r].pc = "crashed"]
               /\ running' = FALSE
               /\ last' = Response("deleteImage", Pending, NoArg)
          ELSE /\ reqs' = [reqs EXCEPT
                      ![r].pc = "run",
                      ![r].images =
                          filterImages(
                              JSONparse((CHOOSE e \in rows : TRUE).images),
                              reqs[r].filename)]
               /\ running' = running
               /\ last' = Response("deleteImage", Pending, NoArg)
    /\ UNCHANGED <<entries, entrySeq, timesheets, timesheetSeq, files, now>>

\* The UPDATE runs; 200 with the filtered list.
deleteImageRun(r) ==
    /\ running
    /\ reqs[r].op = "deleteImage"
    /\ reqs[r].pc = "run"
    /\ entries' = { IF e.id = reqs[r].entryId
                    THEN [e EXCEPT !.images = JSONstringify(reqs[r].images)]
                    ELSE e : e \in entries }
    /\ reqs' = [reqs EXCEPT
           ![r].pc = "done", ![r].status = 200,
           ![r].changes =
               Cardinality({ e \in entries : e.id = reqs[r].entryId })]
    /\ last' = Response("deleteImage", 200, NoArg)
    /\ UNCHANGED <<entrySeq, timesheets, timesheetSeq, files, now, running>>

\* fs.unlink fails on a file that exists (err.code is not ENOENT): 500, and
\* the database is not read.
deleteImageUnlinkFails(r, entryId, imageName) ==
    /\ Arrives(r)
    /\ basename(imageName) \in files
    /\ reqs' = [reqs EXCEPT ![r] =
           Request("deleteImage", "done", entryId, <<>>, basename(imageName),
                   <<>>, 500, Alone(r))]
    /\ last' = Response("deleteImage", 500, NoArg)
    /\ UNCHANGED <<entries, entrySeq, timesheets, timesheetSeq, files, now,
                   running>>

\* The SELECT fails (selectErr): 500.
deleteImageGetFails(r) ==
    /\ running
    /\ reqs[r].op = "deleteImage"
    /\ reqs[r].pc = "get"
    /\ reqs' = [reqs EXCEPT ![r].pc = "done", ![r].status = 500]
    /\ last' = Response("deleteImage", 500, NoArg)
    /\ UNCHANGED <<entries, entrySeq, timesheets, timesheetSeq, files, now,
                   running>>

\* The UPDATE fails (updateErr): 500.
deleteImageRunFails(r) ==
    /\ running
    /\ reqs[r].op = "deleteImage"
    /\ reqs[r].pc = "run"
    /\ reqs' = [reqs EXCEPT ![r].pc = "done", ![r].status = 500]
    /\ last' = Response("deleteImage", 500, NoArg)
    /\ UNCHANGED <<entries, entrySeq, timesheets, timesheetSeq, files, now,
                   running>>

(***************************************************************************)
(* Start of the process after it ended: initializeTimesheets inserts a row *)
(* 0 for every entry that has none.  The requests that were in flight get  *)
(* no response.                                                            *)
(***************************************************************************)
\* INSERT INTO timesheets ... SELECT id, 0, NULL, NULL, NULL FROM entries
\* WHERE NOT EXISTS (... timesheetRow = 0)
\* for the entries ids, scanned in the order of their id.
initializeTimesheetsRows(ids, seq) ==
    { TimesheetRow(seq + Cardinality({ j \in ids : j <= id }), id, 0,
                   NULL, NULL, NULL) : id \in ids }

initializeTimesheets ==
    /\ ~running
    /\ LET ids == { e.id : e \in
                    { x \in entries : Matching(timesheets, x.id, 0) = {} } }
       IN /\ timesheetSeq + Cardinality(ids) <= MaxRowId
          /\ timesheets' = timesheets \cup
                 initializeTimesheetsRows(ids, timesheetSeq)
          /\ timesheetSeq' = timesheetSeq + Cardinality(ids)
    /\ reqs' = [r \in 1..MaxReq |->
                   IF reqs[r].pc \in {"get", "run"}
                   THEN [reqs[r] EXCEPT !.pc = "lost"]
                   ELSE reqs[r]]
    /\ running' = TRUE
    /\ last' = Response("start", Pending, NoArg)
    /\ UNCHANGED <<entries, entrySeq, files, now>>

(***************************************************************************)
(* Specification of the entry and timesheet operations, entries submitted  *)
(* without images.                                                         *)
(***************************************************************************)
NextTimesheet ==
    \/ submit(Alice, <<>>) /\ UNCHANGED clerk
    \/ \E id \in DeleteIdInputs : deleteData(id) /\ UNCHANGED clerk
    \/ \E e \in EntryIdInputs \cup {NoArg}, k \in IndexInputs : newRow(e, k)
          /\ UNCHANGED clerk
    \/ \E e \in EntryIdInputs, k \in IndexInputs, room \in RoomInputs,
          t \in SignInInputs : signIn(e, k, room, t) /\ UNCHANGED clerk
    \/ \E e \in EntryIdInputs, k \in IndexInputs, t \in SignOutInputs :
          signOut(e, k, t) /\ UNCHANGED clerk
    \/ \E e \in EntryIdInputs, k \in IndexInputs, v \in RowInputs :
          updateRow(e, k, v[1], v[2], v[3]) /\ UNCHANGED clerk
    \/ \E e \in EntryIdInputs, k \in IndexInputs : deleteRow(e, k)
          /\ UNCHANGED clerk

SpecTimesheet == Init /\ [][NextTimesheet]_vars

(***************************************************************************)
(* Specification of the operations that create and delete timesheet rows,  *)
(* with updateRow to give the rows values.                                 *)
(***************************************************************************)
NextRowZero ==
    \/ submit(Alice, <<>>) /\ UNCHANGED clerk
    \/ \E id \in DeleteIdInputs : deleteData(id) /\ UNCHANGED clerk
    \/ \E e \in EntryIdInputs \cup {NoArg}, k \in IndexInputs : newRow(e, k)
          /\ UNCHANGED clerk
    \/ \E e \in EntryIdInputs, k \in IndexInputs, v \in RowInputs :
          updateRow(e, k, v[1], v[2], v[3]) /\ UNCHANGED clerk
    \/ \E e \in EntryIdInputs, k \in IndexInputs : deleteRow(e, k)
          /\ UNCHANGED clerk

SpecRowZero == Init /\ [][NextRowZero]_vars

(***************************************************************************)
(* Specification of the entry operations.                                  *)
(***************************************************************************)
NextEntry ==
    \/ \E body \in FieldSets : submit(body, <<>>) /\ UNCHANGED clerk
    \/ \E id \in UpdateIdInputs, body \in FieldSets : update(id, body)
          /\ UNCHANGED clerk
    \/ \E id \in DeleteIdInputs : deleteData(id) /\ UNCHANGED clerk
    \/ \E e \in EntryIdInputs \cup {NoArg}, k \in IndexInputs : newRow(e, k)
          /\ UNCHANGED clerk

SpecEntry == Init /\ [][NextEntry]_vars

(***************************************************************************)
(* Specification of the image operations.                                  *)
(***************************************************************************)
ImageNameInputs == { UploadsUrl(n) : n \in 1..MaxClock }

NextImages ==
    \/ \E n \in {0, 1} : \E names \in Uploads(n) : submit(Alice, names)
          /\ UNCHANGED clerk
    \/ \E id \in DeleteIdInputs : deleteData(id) /\ UNCHANGED clerk
    \/ \E r \in 1..MaxReq, e \in EntryIdInputs, n \in FileCountInputs :
          \E names \in Uploads(n) : addImage(r, e, names) /\ UNCHANGED clerk
    \/ \E r \in 1..MaxReq : addImageGet(r) /\ UNCHANGED clerk
    \/ \E r \in 1..MaxReq : addImageRun(r) /\ UNCHANGED clerk
    \/ \E r \in 1..MaxReq, e \in EntryIdInputs, img \in ImageNameInputs :
          deleteImage(r, e, img) /\ UNCHANGED clerk
    \/ \E r \in 1..MaxReq : deleteImageGet(r) /\ UNCHANGED clerk
    \/ \E r \in 1..MaxReq : deleteImageRun(r) /\ UNCHANGED clerk
    \/ initializeTimesheets /\ UNCHANGED clerk

SpecImages == Init /\ [][NextImages]_vars

(***************************************************************************)
(* Specification of concurrent /add-image requests.                        *)
(***************************************************************************)
NextAddImage ==
    \/ submit(Alice, <<>>) /\ UNCHANGED clerk
    \/ \E id \in DeleteIdInputs : deleteData(id) /\ UNCHANGED clerk
    \/ \E r \in 1..MaxReq, e \in EntryIdInputs, n \in {0, 1} :
          \E names \in Uploads(n) : addImage(r, e, names) /\ UNCHANGED clerk
    \/ \E r \in 1..MaxReq : addImageGet(r) /\ UNCHANGED clerk
    \/ \E r \in 1..MaxReq : addImageRun(r) /\ UNCHANGED clerk

SpecAddImage == Init /\ [][NextAddImage]_vars

(***************************************************************************)
(* Specification of the rows of an entry and the current row.              *)
(***************************************************************************)
NextCurrentRow ==
    \/ submit(Alice, <<>>) /\ UNCHANGED clerk
    \/ \E id \in DeleteIdInputs : deleteData(id) /\ UNCHANGED clerk
    \/ \E e \in EntryIdInputs, k \in IndexInputs : newRow(e, k)
          /\ UNCHANGED clerk
    \/ \E e \in EntryIdInputs, k \in IndexInputs : deleteRow(e, k)
          /\ UNCHANGED clerk
    \/ \E e \in EntryIdInputs : getCurrentRow(e) /\ UNCHANGED clerk

SpecCurrentRow == Init /\ [][NextCurrentRow]_vars

(***************************************************************************)
(* Specification of the clerk: clients call newRow, deleteRow and submit   *)
(* in any order; then the clerk makes its calls, and no other client calls *)
(* between them.                                                           *)
(***************************************************************************)
clerkSubmit ==
    /\ clerk.calls = 0
    /\ submit(Alice, <<>>)
    /\ clerk' = Clerk(1, entrySeq + 1, NoArg)

clerkNewRow(timesheetRow) ==
    /\ clerk.calls = 1
    /\ timesheetRow > 0
    /\ newRow(clerk.entryId, timesheetRow)
    /\ clerk' = Clerk(2, clerk.entryId, timesheetRow)

clerkSignIn(roomNumber, signInTime) ==
    /\ clerk.calls = 2
    /\ signIn(clerk.entryId, clerk.timesheetRow, roomNumber, signInTime)
    /\ clerk' = [clerk EXCEPT !.calls = 3]

clerkSignOut(signOutTime) ==
    /\ clerk.calls = 3
    /\ signOut(clerk.entryId, clerk.timesheetRow, signOutTime)
    /\ clerk' = [clerk EXCEPT !.calls = 4]

clerkList ==
    /\ clerk.calls = 4
    /\ list(clerk.entryId)
    /\ clerk' = [clerk EXCEPT !.calls = 5]

NextClerk ==
    \/ clerk.calls = 0 /\ submit(Alice, <<>>) /\ UNCHANGED clerk
    \/ \E e \in EntryIdInputs, k \in IndexInputs :
          clerk.calls = 0 /\ newRow(e, k) /\ UNCHANGED clerk
    \/ \E e \in EntryIdInputs, k \in IndexInputs :
          clerk.calls = 0 /\ deleteRow(e, k) /\ UNCHANGED clerk
    \/ \E e \in EntryIdInputs :
          clerk.calls = 0 /\ list(e) /\ UNCHANGED clerk
    \/ clerkSubmit
    \/ \E k \in IndexInputs : clerkNewRow(k)
    \/ \E room \in RoomInputs, t \in SignInInputs : clerkSignIn(room, t)
    \/ \E t \in SignOutInputs : clerkSignOut(t)
    \/ clerkList

SpecClerk == Init /\ [][NextClerk]_vars

(***************************************************************************)
(* Specification of /delete-image with the failures of the file system and *)
(* of the database, no two files named alike.                              *)
(***************************************************************************)
NextDeleteImage ==
    \/ \E n \in {0, 1} : \E names \in UploadsApart(n) : submit(Alice, names)
          /\ UNCHANGED clerk
    \/ \E r \in 1..MaxReq, e \in EntryIdInputs, img \in ImageNameInputs :
          deleteImage(r, e, img) /\ UNCHANGED clerk
    \/ \E r \in 1..MaxReq, e \in EntryIdInputs, img \in ImageNameInputs :
          deleteImageUnlinkFails(r, e, img) /\ UNCHANGED clerk
    \/ \E r \in 1..MaxReq : deleteImageGet(r) /\ UNCHANGED clerk
    \/ \E r \in 1..MaxReq : deleteImageGetFails(r) /\ UNCHANGED clerk
    \/ \E r \in 1..MaxReq : deleteImageRun(r) /\ UNCHANGED clerk
    \/ \E r \in 1..MaxReq : deleteImageRunFails(r) /\ UNCHANGED clerk

SpecDeleteImage == Init /\ [][NextDeleteImage]_vars

(***************************************************************************)
(* Specification of the timesheet endpoints, entries created and never     *)
(* deleted, at most MaxRows rows stored at a time.                         *)
(***************************************************************************)
NextRows ==
    \/ Cardinality(timesheets) < MaxRows /\ submit(Alice, <<>>)
          /\ UNCHANGED clerk
    \/ \E e \in EntryIdInputs, k \in IndexInputs :
          Cardinality(timesheets) < MaxRows /\ newRow(e, k)
          /\ UNCHANGED clerk
    \/ \E e \in EntryIdInputs, k \in IndexInputs, room \in RoomInputs,
          t \in SignInInputs : signIn(e, k, room, t) /\ UNCHANGED clerk
    \/ \E e \in EntryIdInputs, k \in IndexInputs, t \in SignOutInputs :
          signOut(e, k, t) /\ UNCHANGED clerk
    \/ \E e \in EntryIdInputs, k \in IndexInputs, v \in RowInputs :
          updateRow(e, k, v[1], v[2], v[3]) /\ UNCHANGED clerk
    \/ \E e \in EntryIdInputs, k \in IndexInputs : deleteRow(e, k)
          /\ UNCHANGED clerk

SpecRows == Init /\ [][NextRows]_vars

(***************************************************************************)
(* Specification of the image operations, no two files named alike.        *)
(***************************************************************************)
NextStore ==
    \/ \E n \in {0, 1} : \E names \in UploadsApart(n) : submit(Alice, names)
          /\ UNCHANGED clerk
    \/ \E r \in 1..MaxReq, e \in EntryIdInputs, n \in {0, 1} :
          \E names \in UploadsApart(n) : addImage(r, e, names)
          /\ UNCHANGED clerk
    \/ \E r \in 1..MaxReq : addImageGet(r) /\ UNCHANGED clerk
    \/ \E r \in 1..MaxReq : addImageRun(r) /\ UNCHANGED clerk
    \/ \E r \in 1..MaxReq, e \in EntryIdInputs, img \in ImageNameInputs :
          deleteImage(r, e, img) /\ UNCHANGED clerk
    \/ \E r \in 1..MaxReq : deleteImageGet(r) /\ UNCHANGED clerk
    \/ \E r \in 1..MaxReq : deleteImageRun(r) /\ UNCHANGED clerk

SpecStore == Init /\ [][NextStore]_vars

Next == NextTimesheet \/ NextEntry \/ NextImages

Spec == Init /\ [][Next]_vars

(***************************************************************************)
(* Properties.                                                             *)
(***************************************************************************)
Nulls(r) == r.roomNumber = NULL /\ r.signIn = NULL /\ r.signOut = NULL

\* A row without its store-assigned id.
Strip(r) == [timesheetRow |-> r.timesheetRow, roomNumber |-> r.roomNumber,
             signIn |-> r.signIn, signOut |-> r.signOut]

\* C1: every entry that exists has at least one timesheet row with its
\* entryId and timesheetRow = 0.
C1_RowZero ==
    \A e \in entries : Matching(timesheets, e.id, 0) # {}

\* C2: after delete(id) succeeded on an existing entry, no timesheet row
\* with entryId = id exists.
C2_CascadeDelete ==
    [][\A id \in EntryIdInputs :
          (id \in EntryIds /\ deleteData(id))
              => RowsOf(timesheets', id) = {}]_vars

\* C3: immediately after submit created an entry, exactly one timesheet row
\* with the new id and timesheetRow = 0 exists, and its roomNumber, signIn
\* and signOut are null.
C3_OneRowZeroAfterSubmit ==
    last.op = "submit" =>
        /\ Cardinality(Matching(timesheets, last.result, 0)) = 1
        /\ \A r \in Matching(timesheets, last.result, 0) : Nulls(r)

\* C4: deleteRow of the only timesheet row of an existing entry leaves the
\* entry with exactly one row, with timesheetRow = 0 and roomNumber, signIn,
\* signOut null; when the deleted row was such a row already, the rows of
\* the entry are the same as before but for the row id.
C4_DeleteOnlyRow ==
    [][\A e \in EntryIdInputs, k \in IndexInputs :
          ( /\ last'.op = "deleteRow"
            /\ e \in EntryIds
            /\ Cardinality(RowsOf(timesheets, e)) = 1
            /\ Matching(timesheets, e, k) # {}
            /\ deleteRow(e, k) )
          => /\ Cardinality(RowsOf(timesheets', e)) = 1
             /\ \A r \in RowsOf(timesheets', e) :
                   r.timesheetRow = 0 /\ Nulls(r)
             /\ (\A r \in RowsOf(timesheets, e) :
                    r.timesheetRow = 0 /\ Nulls(r))
                => { Strip(r) : r \in RowsOf(timesheets', e) } =
                   { Strip(r) : r \in RowsOf(timesheets, e) }]_vars

\* C4 witness: deleteRow just ran, and the only row of an existing entry is
\* the row the trigger inserted in that step, with index 0 and null fields.
C4_Witness ==
    /\ last.op = "deleteRow"
    /\ \E e \in entries :
          /\ Cardinality(RowsOf(timesheets, e.id)) = 1
          /\ \A r \in RowsOf(timesheets, e.id) :
                r.id = timesheetSeq /\ r.id > 1 /\ r.timesheetRow = 0
                /\ Nulls(r)

\* C5: no two timesheet rows of the same entry have the same timesheetRow.
C5_UniqueIndex ==
    \A r1 \in timesheets, r2 \in timesheets :
        (r1.entryId = r2.entryId /\ r1.timesheetRow = r2.timesheetRow)
            => r1 = r2

\* C6: the entryId of every timesheet row is the id of an existing entry.
C6_ReferentialIntegrity ==
    \A r \in timesheets : r.entryId \in EntryIds

\* C7: when addImages(id, [f1, f2]) on an existing entry was answered and
\* then deleteImage(id, f1) was made and answered, the image list stored for
\* the entry is the list L it had before, followed by the reference to f2.
C7_RoundTrip ==
    \A e \in entries :
        LET add == reqs[1]
            del == reqs[2]
            L == SubSeq(add.images, 1, Len(add.images) - 2)
        IN ( /\ add.op = "addImage" /\ add.pc = "done" /\ add.status = 200
             /\ add.entryId = e.id /\ Len(add.names) = 2
             /\ add.changes = 1
             /\ del.op = "deleteImage" /\ del.pc = "done"
             /\ del.status = 200 /\ del.alone
             /\ del.entryId = e.id /\ del.filename = add.names[1] )
           => JSONparse(e.images) = L \o <<UploadsUrl(add.names[2])>>

\* C8: a deleteImage request whose entryId was never the id of an entry
\* ends with one response, 404.
C8_NotFound ==
    \A r \in 1..MaxReq :
        ( /\ reqs[r].op = "deleteImage"
          /\ reqs[r].entryId > entrySeq
          /\ reqs[r].pc \notin {"get", "run"} )
        => (reqs[r].pc = "done" /\ reqs[r].status = 404)

\* C9: the write of an addImages call stores the list the call computed
\* from its own earlier read, whatever is stored at the time of the write,
\* and the call is answered 200: when another call wrote between the read
\* and the write, what that call appended is dropped.
C9_StaleWrite ==
    [][\A r \in 1..MaxReq :
          (reqs[r].op = "addImage" /\ reqs[r].pc = "run"
           /\ reqs'[r].pc = "done")
          => /\ reqs'[r].status = 200
             /\ \A e \in entries' :
                   e.id = reqs[r].entryId
                       => JSONparse(e.images) = reqs[r].images]_vars

\* C9 witness: two addImages calls on the same existing entry read the same
\* list (both reads before either write), both were answered 200, and the
\* stored list is that of the second and lacks the reference of the first.
C9_Witness ==
    \E e \in entries :
        LET a == reqs[1]
            b == reqs[2]
        IN /\ a.op = "addImage" /\ a.pc = "done" /\ a.status = 200
           /\ b.op = "addImage" /\ b.pc = "done" /\ b.status = 200
           /\ a.entryId = e.id /\ b.entryId = e.id
           /\ SubSeq(a.images, 1, Len(a.images) - Len(a.names)) =
              SubSeq(b.images, 1, Len(b.images) - Len(b.names))
           /\ JSONparse(e.images) = b.images
           /\ \A i \in 1..Len(JSONparse(e.images)) :
                 basename(JSONparse(e.images)[i]) # a.names[1]

C11_DeleteAgain ==
    [][\A id \in DeleteIdInputs \ {NoArg} :
          ( /\ last'.op = "delete"
            /\ id <= entrySeq
            /\ id \notin EntryIds
            /\ deleteData(id) )
          => /\ last'.status = 404
             /\ UNCHANGED <<entries, entrySeq, timesheets,
                            timesheetSeq>>]_vars

\* C11 witness: a delete was answered 404 when every id a delete can name
\* had been assigned, so the id it named was that of an entry deleted
\* before, and the rows left under the deleted ids are still stored.
C11_Witness ==
    /\ last.op = "delete"
    /\ last.status = 404
    /\ \A id \in DeleteIdInputs \ {NoArg} :
          /\ id <= entrySeq
          /\ id \notin EntryIds => RowsOf(timesheets, id) # {}

\* C12: get-current-row answers with a row of the entry whose timesheetRow
\* is the greatest of the entry's rows, answers 404 exactly when no row has
\* that entryId, and never answers 404 for an entry that exists.
C12_CurrentRow ==
    [][\A e \in EntryIdInputs :
          (last'.op = "getCurrentRow" /\ getCurrentRow(e))
          => /\ last'.status = 404 <=> RowsOf(timesheets, e) = {}
             /\ last'.status # 404 =>
                   /\ last'.status = 200
                   /\ last'.result \in RowsOf(timesheets, e)
                   /\ \A r \in RowsOf(timesheets, e) :
                         r.timesheetRow <= last'.result.timesheetRow
             /\ e \in EntryIds => last'.status # 404
             /\ UNCHANGED <<entries, entrySeq, timesheets,
                            timesheetSeq>>]_vars

\* C12 witness: get-current-row answered with the row of index 1 of an
\* existing entry that has a row of index 0 too.
C12_Witness ==
    /\ last.op = "getCurrentRow"
    /\ last.status = 200
    /\ last.result.entryId \in EntryIds
    /\ last.result.timesheetRow = 1
    /\ Matching(timesheets, last.result.entryId, 0) # {}

\* C13: after the clerk created an entry e and called newRow(e, k) with
\* k > 0, signIn(e, k, room, tIn) and signOut(e, k, tOut), the list of e is
\* two rows: row 0 with roomNumber, signIn and signOut null, then row k
\* with (room, tIn, tOut).
C13_ClerkList ==
    clerk.calls = 5 =>
        /\ Len(last.result) = 2
        /\ last.result[1].entryId = clerk.entryId
        /\ last.result[1].timesheetRow = 0
        /\ Nulls(last.result[1])
        /\ last.result[2].entryId = clerk.entryId
        /\ last.result[2].timesheetRow = clerk.timesheetRow
        /\ last.result[2].roomNumber \in RoomInputs
        /\ last.result[2].signIn \in SignInInputs
        /\ last.result[2].signOut \in SignOutInputs

\* C14: delete-image removes the file before it touches the database.  A
\* request whose file is missing is answered 404 and leaves the entries as
\* they are; a request reads the image list only when its unlink removed
\* the file, and writes it only after that read; a failure of the read or
\* of the write is answered 500, and the file stays removed.
C14_FileFirst ==
    [][\A r \in 1..MaxReq :
          reqs'[r].op = "deleteImage" =>
             /\ (reqs[r].pc = "idle" /\ reqs'[r].filename \notin files)
                => /\ reqs'[r].pc = "done" /\ reqs'[r].status = 404
                   /\ UNCHANGED <<entries, files>>
             /\ (reqs[r].pc = "idle" /\ reqs'[r].pc = "get")
                => /\ reqs'[r].filename \in files
                   /\ files' = files \ {reqs'[r].filename}
                   /\ UNCHANGED entries
             /\ (reqs[r].pc # "get" /\ reqs'[r].pc = "get")
                => reqs[r].pc = "idle"
             /\ (reqs[r].pc # "run" /\ reqs'[r].pc = "run")
                => reqs[r].pc = "get" /\ UNCHANGED <<entries, files>>
             /\ (last'.op = "deleteImage" /\ entries' # entries)
                => \E q \in 1..MaxReq :
                      /\ reqs[q].op = "deleteImage" /\ reqs[q].pc = "run"
                      /\ reqs'[q].pc = "done" /\ reqs'[q].status = 200
             /\ (reqs[r].pc \in {"get", "run"} /\ reqs'[r].pc = "done"
                 /\ reqs'[r].status # 200)
                => /\ reqs'[r].status = 500
                   /\ reqs[r].filename \notin files'
                   /\ UNCHANGED <<entries, files>>]_vars

\* C14 witness: a delete-image request was answered 500 after its file was
\* removed, and its entry still lists the file.
C14_Witness ==
    \E r \in 1..MaxReq, e \in entries :
        /\ reqs[r].op = "deleteImage" /\ reqs[r].pc = "done"
        /\ reqs[r].status = 500
        /\ reqs[r].entryId = e.id
        /\ reqs[r].filename \notin files
        /\ \E i \in 1..Len(JSONparse(e.images)) :
              basename(JSONparse(e.images)[i]) = reqs[r].filename

\* C15: signOut answers 404 exactly when no row matches (entryId,
\* timesheetRow) and 200 otherwise; signIn and updateRow answer 200 whether
\* or not a row matches; a call of any of the three that matches no row
\* changes no timesheet row and creates none.  (Stated step by step: a step
\* with another answer, or one that changes a row, is not such a call.)
C15_NoMatch ==
    [][/\ last'.op \in {"signIn", "updateRow"} => last'.status = 200
       /\ \A e \in EntryIdInputs, k \in IndexInputs :
             /\ ( /\ last'.op = "signOut"
                  /\ last'.status #
                        (IF Matching(timesheets, e, k) = {}
                         THEN 404 ELSE 200) )
                => ~ \E t \in SignOutInputs : signOut(e, k, t)
             /\ ( /\ last'.op \in {"signIn", "signOut", "updateRow"}
                  /\ Matching(timesheets, e, k) = {}
                  /\ <<entries, entrySeq, timesheets, timesheetSeq>>' #
                     <<entries, entrySeq, timesheets, timesheetSeq>> )
                => ~ ( \/ \E t \in SignOutInputs : signOut(e, k, t)
                       \/ \E room \in RoomInputs, t \in SignInInputs :
                             signIn(e, k, room, t)
                       \/ \E v \in RowInputs :
                             updateRow(e, k, v[1], v[2], v[3]) )]_vars

\* C15 witness: signIn was answered 200 and matched no row: rows exist and
\* none has a signIn value.
C15_Witness ==
    /\ last.op = "signIn"
    /\ last.status = 200
    /\ timesheets # {}
    /\ \A r \in timesheets : r.signIn = NULL

\* The timesheet rows of the entries other than entryId.
RowsOfOthers(ts, entryId) == { r \in ts : r.entryId # entryId }

\* C16: newRow, signIn, signOut, updateRow and deleteRow called with an
\* entryId create, change and delete no timesheet row of another entryId,
\* the row the trigger inserts included, and change no entry.  (Stated step
\* by step: a step that changes a row of another entryId, or an entry, is
\* not a call of one of the five with this entryId.)
C16_Isolation ==
    [][\A a \in EntryIdInputs :
          ( \/ RowsOfOthers(timesheets', a) # RowsOfOthers(timesheets, a)
            \/ <<entries, entrySeq>>' # <<entries, entrySeq>> )
          => ~ \E k \in IndexInputs :
                 \/ newRow(a, k)
                 \/ \E room \in RoomInputs, t \in SignInInputs :
                       signIn(a, k, room, t)
                 \/ \E t \in SignOutInputs : signOut(a, k, t)
                 \/ \E v \in RowInputs : updateRow(a, k, v[1], v[2], v[3])
                 \/ deleteRow(a, k)]_vars

\* C16 witness: deleteRow removed the last row of one entryId and the
\* trigger inserted its row 0, while a row of another entryId holds values.
C16_Witness ==
    /\ last.op = "deleteRow"
    /\ \E r \in timesheets, q \in timesheets :
          /\ r.id = timesheetSeq /\ r.id > 1
          /\ RowsOf(timesheets, r.entryId) = {r}
          /\ q.entryId # r.entryId
          /\ q.signIn # NULL

\* C17: when every file got a name of its own, no request failed, and the
\* submit, add-image and delete-image calls made so far ran one after the
\* other and were all answered, every reference in the image list of every
\* entry names a file that is in uploads/.
C17_NoDanglingReference ==
    ( /\ running
      /\ \A r \in 1..MaxReq :
            \/ reqs[r].pc = "idle"
            \/ /\ reqs[r].pc = "done"
               /\ reqs[r].alone
               /\ reqs[r].status \in {200, 400, 404} )
    => \A e \in entries :
          \A i \in 1..Len(JSONparse(e.images)) :
              basename(JSONparse(e.images)[i]) \in files

\* C18: entrySeq is the largest id ever assigned, and every submit returns
\* an id greater than it: the id of the entry it creates is the id of no
\* entry created before, deleted or not, and no timesheet row stored under
\* the id of a deleted entry has the new id.
C18_FreshId ==
    [][( /\ last'.op = "submit"
         /\ \E body \in FieldSets : submit(body, <<>>) )
       => /\ \A e \in entries : e.id <= entrySeq
          /\ last'.result > entrySeq
          /\ entrySeq' = last'.result
          /\ \E e \in entries' \ entries :
                /\ e.id = last'.result
                /\ entries' = entries \cup {e}
          /\ \A r \in timesheets :
                (r.entryId <= entrySeq /\ r.entryId \notin EntryIds)
                    => r.entryId # last'.result]_vars

\* C18 witness: submit returned id 2 after entry 1 was deleted; the row
\* left under id 1 is still stored and entry 2 has one row.
C18_Witness ==
    /\ last.op = "submit"
    /\ last.result = 2
    /\ 2 \in EntryIds
    /\ 1 \notin EntryIds
    /\ RowsOf(timesheets, 1) # {}
    /\ Cardinality(RowsOf(timesheets, 2)) = 1

====
